---- MODULE Spec2Model ----
(***************************************************************************)
(* A model of the IoTDB MCP gateway (src/src/iotdb_mcp_server/server.py):  *)
(* the DatabaseServer handlers list_resources, read_resource, get_prompt   *)
(* and call_tool, the session pool they share, and the text they produce.  *)
(*                                                                         *)
(* Text is modelled as a sequence of one-character strings, so that        *)
(* strip, upper, startswith, split, join and replace are computed the way  *)
(* Python computes them.                                                   *)
(***************************************************************************)
EXTENDS Integers, Sequences, FiniteSets, TLC

(***************************************************************************)
(* Bounds of the model.                                                    *)
(***************************************************************************)
\* Handler invocations that may be in flight at once.
MaxInv == 2
\* Sessions the pool may create (max_pool_size of the driver's pool).
MaxPoolSize == 2
\* Rows held by the large table of the modelled database.
BigRows == 101

(***************************************************************************)
(* Python string operations on character sequences.                        *)
(***************************************************************************)
LowerChars ==
    << "a","b","c","d","e","f","g","h","i","j","k","l","m",
       "n","o","p","q","r","s","t","u","v","w","x","y","z" >>

UpperChars ==
    << "A","B","C","D","E","F","G","H","I","J","K","L","M",
       "N","O","P","Q","R","S","T","U","V","W","X","Y","Z" >>

DigitChars == << "0","1","2","3","4","5","6","7","8","9" >>

\* Characters str.strip() removes.
Whitespace == { " ", "\t", "\n", "\r" }

NL == "\n"

\* str.upper() on one character.
UpperChar(c) ==
    IF \E k \in 1..26 : LowerChars[k] = c
    THEN UpperChars[CHOOSE k \in 1..26 : LowerChars[k] = c]
    ELSE c

\* str.upper()
Upper(s) == [k \in 1..Len(s) |-> UpperChar(s[k])]

\* str.strip()
Strip(s) ==
    LET keep == { k \in 1..Len(s) : s[k] \notin Whitespace }
    IN  IF keep = {} THEN << >>
        ELSE LET lo == CHOOSE k \in keep : \A m \in keep : k <= m
                 hi == CHOOSE k \in keep : \A m \in keep : k >= m
             IN  SubSeq(s, lo, hi)

\* str.startswith(p)
StartsWith(s, p) == Len(s) >= Len(p) /\ SubSeq(s, 1, Len(p)) = p

\* s[n:]
DropChars(s, n) == SubSeq(s, n + 1, Len(s))

\* p occurs in s at position k
OccursAt(s, p, k) == k + Len(p) - 1 <= Len(s) /\ SubSeq(s, k, k + Len(p) - 1) = p

\* str.split(sep) for a one-character separator: the pieces between the
\* separators, always at least one.
Split(s, sep) ==
    LET at == { k \in 1..Len(s) : s[k] = sep }
        \* the position of the j-th separator; 0 and Len(s) + 1 close the ends
        pos(j) == IF j = 0 THEN 0
                  ELSE IF j > Cardinality(at) THEN Len(s) + 1
                  ELSE CHOOSE k \in at : Cardinality({ m \in at : m < k }) = j - 1
    IN  [j \in 1..(Cardinality(at) + 1) |-> SubSeq(s, pos(j - 1) + 1, pos(j) - 1)]

\* sep.join(parts), computed by halves.
RECURSIVE Join(_, _)
Join(parts, sep) ==
    IF Len(parts) = 0 THEN << >>
    ELSE IF Len(parts) = 1 THEN parts[1]
    ELSE LET half == Len(parts) \div 2
         IN  Join(SubSeq(parts, 1, half), sep) \o sep
                 \o Join(SubSeq(parts, half + 1, Len(parts)), sep)

\* str.replace(pat, val) for a non-empty pat: the leftmost non-overlapping
\* occurrences are replaced; the inserted text is not scanned again.
RECURSIVE Replace(_, _, _)
Replace(s, pat, val) ==
    IF Len(s) = 0 THEN << >>
    ELSE IF OccursAt(s, pat, 1)
         THEN val \o Replace(DropChars(s, Len(pat)), pat, val)
         ELSE << s[1] >> \o Replace(Tail(s), pat, val)

\* str(n) for a non-negative integer.
RECURSIVE Digits(_)
Digits(n) ==
    IF n < 10 THEN << DigitChars[n + 1] >>
    ELSE Digits(n \div 10) \o << DigitChars[(n % 10) + 1] >>

(***************************************************************************)
(* Program constants and the configuration the server is built from.       *)
(***************************************************************************)
\* RES_PREFIX = "iotdb://"
RES_PREFIX == << "i","o","t","d","b",":","/","/" >>

\* RESULTS_LIMIT = 100
RESULTS_LIMIT == 100

\* self.db_config["database"], taken verbatim from the configuration.
Database == << "d","b" >>

\* The one tool call_tool accepts.
ToolName == "execute_sql"

\* "Error: Contain dangerous operations, reason:"
DangerPrefix == << "E","r","r","o","r",":"," ","C","o","n","t","a","i","n"," ","d","a","n","g","e","r","o","u","s"," ","o","p","e","r","a","t","i","o","n","s",","," ","r","e","a","s","o","n",":" >>

\* "Error executing query"
ErrorText == << "E","r","r","o","r"," ","e","x","e","c","u","t","i","n","g"," ","q","u","e","r","y" >>

\* "Tables_in_"
TablesInPrefix == << "T","a","b","l","e","s","_","i","n","_" >>

\* The fixed statement of list_resources.
ShowTables == << "S","H","O","W"," ","T","A","B","L","E","S" >>

KwSelect == << "S","E","L","E","C","T" >>

KwDescribe == << "D","E","S","C","R","I","B","E" >>

\* self.templates: prompt name -> template body (templates_loader()).
\*   "ask":   "q {{ t }} x{{ n }}{{ t }}"
\*   "plain": "a{{b}}"     (braces without the blanks: not a placeholder)
TemplateNames == { "ask", "plain" }

Templates ==
    [ ask   |-> << "q"," ","{","{"," ","t"," ","}","}"," ","x","{","{"," ","n"," ","}","}","{","{"," ","t"," ","}","}" >>,
      plain |-> << "a","{","{","b","}","}" >> ]

(***************************************************************************)
(* utils.security_gate: (is_dangerous, reason) of a query text.  A lexical *)
(* gate: the query is cut into word tokens outside '...' string literals   *)
(* and rejected when a token is a denylisted keyword, when a statement     *)
(* separator stands outside a literal, when it is empty, or when a literal *)
(* is left open.                                                           *)
(***************************************************************************)
Denylist ==
    { << "D","R","O","P" >>, << "D","E","L","E","T","E" >>, << "T","R","U","N","C","A","T","E" >>, << "A","L","T","E","R" >>, << "U","P","D","A","T","E" >>,
      << "I","N","S","E","R","T" >>, << "G","R","A","N","T" >>, << "R","E","V","O","K","E" >>, << "C","R","E","A","T","E" >> }

Semicolon == ";"

Quote == "'"

WordChars ==
    { LowerChars[k] : k \in 1..26 } \cup { UpperChars[k] : k \in 1..26 }
        \cup { DigitChars[k] : k \in 1..10 } \cup { "_" }

\* Position k of s lies inside a string literal (or is one of its quotes).
InLiteral(s, k) ==
    s[k] = Quote \/ Cardinality({ m \in 1..(k - 1) : s[m] = Quote }) % 2 = 1

\* The query with its literals blanked out, upper-cased for comparison.
CodeText(s) == [k \in 1..Len(s) |-> IF InLiteral(s, k) THEN " " ELSE UpperChar(s[k])]

\* The word token of c that starts at position k, if one starts there.
TokenAt(c, k) ==
    LET ends == { j \in k..Len(c) :
                    /\ \A m \in k..j : c[m] \in WordChars
                    /\ (j = Len(c) \/ c[j + 1] \notin WordChars) }
    IN  IF c[k] \in WordChars /\ (k = 1 \/ c[k - 1] \notin WordChars)
        THEN SubSeq(c, k, CHOOSE j \in ends : TRUE)
        ELSE << >>

\* Fault variant: only the statement separator is looked for.
GateHitsSeparators(s) ==
    LET c == CodeText(s)
    IN  { k \in 1..Len(c) : c[k] = Semicolon }

\* Positions of the query where a denylisted keyword or a separator stands.
GateHits(s) ==
    LET c == CodeText(s)
    IN  { k \in 1..Len(c) : c[k] = Semicolon \/ TokenAt(c, k) \in Denylist }

SecurityGate(query) ==
    LET c == CodeText(query)
        hits == GateHits(query)
    IN  IF Strip(query) = << >>
        THEN [dangerous |-> TRUE, reason |-> << "e","m","p","t","y"," ","q","u","e","r","y" >>]
        ELSE IF Cardinality({ m \in 1..Len(query) : query[m] = Quote }) % 2 = 1
        THEN [dangerous |-> TRUE, reason |-> << "u","n","p","a","r","s","e","a","b","l","e"," ","s","t","a","t","e","m","e","n","t" >>]
        ELSE IF hits = {}
        THEN [dangerous |-> FALSE, reason |-> << >>]
        ELSE LET first == CHOOSE k \in hits : \A m \in hits : k <= m
             IN  [dangerous |-> TRUE,
                  reason |-> IF c[first] = Semicolon THEN << Semicolon >>
                             ELSE TokenAt(c, first)]

(***************************************************************************)
(* The database behind the driver: what execute_query_statement answers.   *)
(* A result set has named columns and rows of typed fields.                *)
(***************************************************************************)
IntField(n) == [type |-> "INT64", num |-> n, txt |-> << >>]

TextField(s) == [type |-> "TEXT", num |-> 0, txt |-> s]

NullField == [type |-> "NULL", num |-> 0, txt |-> << >>]

\* str(field): the text map(str, row) yields for a field.
Str(f) ==
    IF f.type = "INT64" THEN Digits(f.num)
    ELSE IF f.type = "TEXT" THEN f.txt
    ELSE << "N","o","n","e" >>

\* The tables of the modelled database, in SHOW TABLES order; the last one
\* was created under a quoted name that holds a slash.
TableNames == << << "a" >>, << "b" >>, << "c" >>, << "d","/","e" >> >>

\* Table a: columns time,temp with one row; b: one column, BigRows rows;
\* c, and d/e alike: BigRows rows of text values holding a line break or a
\* comma, and a null.
TableData(t) ==
    IF t = << "a" >>
    THEN [cols |-> << << "t","i","m","e" >>, << "t","e","m","p" >> >>,
          rows |-> << << IntField(1), TextField(<< "2","3",".","5" >>) >> >>]
    ELSE IF t = << "b" >>
    THEN [cols |-> << << "v" >> >>,
          rows |-> [k \in 1..BigRows |-> << IntField(1) >>]]
    ELSE [cols |-> << << "n" >>, << "s" >> >>,
          rows |-> [k \in 1..BigRows |->
                      IF k = 2 THEN << NullField, TextField(<< "p",",","q" >>) >>
                      ELSE << IntField(k), TextField(<< "x","\n","y" >>) >>]]

\* What SHOW TABLES answers: one row per table, the name first.
TableListing ==
    [cols |-> << << "T","a","b","l","e","N","a","m","e" >>, << "T","T","L","(","m","s",")" >> >>,
     rows |-> [k \in 1..Len(TableNames) |-> << TextField(TableNames[k]), TextField(<< "I","N","F" >>) >>]]

\* Answers to statements the model does not interpret (an expression, a
\* DESCRIBE, an administrative statement): one of a few shapes, among
\* them a column aliased to a name that holds a comma.
GenericResults ==
    { [cols |-> << << "_","c","o","l","0" >> >>, rows |-> << << IntField(1) >> >>],
      [cols |-> << << "x",",","y" >> >>, rows |-> << << TextField(<< "z" >>) >>, << IntField(20) >> >>],
      [cols |-> << << "C","o","l","u","m","n","N","a","m","e" >>, << "D","a","t","a","T","y","p","e" >> >>, rows |-> << >>] }

\* The statement up to a "--" comment, which the database ignores.
StripComment(s) ==
    LET at == { k \in 1..Len(s) : OccursAt(s, << "-","-" >>, k) }
    IN  IF at = {} THEN s
        ELSE SubSeq(s, 1, (CHOOSE k \in at : \A m \in at : k <= m) - 1)

SelectFrom == << "S","E","L","E","C","T"," ","*"," ","F","R","O","M"," " >>

LimitClause == << " ","L","I","M","I","T"," " >>

\* The statement ends in a LIMIT clause of n rows.
HasLimit(s, n) ==
    LET tail == LimitClause \o Digits(n)
    IN  Len(s) >= Len(tail) /\ SubSeq(s, Len(s) - Len(tail) + 1, Len(s)) = tail

\* The first n elements of a sequence.
Take(rows, n) == SubSeq(rows, 1, IF n < Len(rows) THEN n ELSE Len(rows))

\* The result sets the database may answer a statement with; none when it
\* can only reject the statement.  "SELECT * FROM t [LIMIT n]" reads table t.
DbResults(stmt) ==
    LET s == Strip(StripComment(stmt))
        limited == HasLimit(s, RESULTS_LIMIT)
        from == IF limited
                THEN SubSeq(s, 1, Len(s) - Len(LimitClause \o Digits(RESULTS_LIMIT)))
                ELSE s
        t == Strip(DropChars(from, Len(SelectFrom)))
    IN  IF Upper(s) = ShowTables THEN { TableListing }
        ELSE IF StartsWith(from, SelectFrom)
        THEN IF \E k \in 1..Len(TableNames) : TableNames[k] = t
             THEN { [cols |-> TableData(t).cols,
                     rows |-> IF limited THEN Take(TableData(t).rows, RESULTS_LIMIT)
                              ELSE TableData(t).rows] }
             ELSE {}
        ELSE GenericResults

(***************************************************************************)
(* Requests the callers may send.                                          *)
(***************************************************************************)
\* Most arguments a get_prompt request carries.
MaxArgs == 2

ToolNames == { ToolName, "drop_database" }

\* The "query" argument of call_tool, when present.
Queries ==
    { << >>,
      << " "," "," " >>,
      << " ","s","e","l","e","c","t"," ","1"," " >>,
      << "S","H","O","W"," ","T","A","B","L","E","S" >>,
      << "s","h","o","w"," ","t","a","b","l","e","s"," " >>,
      << "S","h","o","w"," ","T","a","b","l","e","s"," ","D","e","t","a","i","l","s" >>,
      << "d","e","s","c","r","i","b","e"," ","a" >>,
      << "S","E","T"," ","X" >>,
      << "S","E","L","E","C","T"," ","'","D","R","O","P","'" >>,
      << "D","R","O","P"," ","T","A","B","L","E"," ","a" >>,
      << "s","e","l","e","c","t"," ","1",";"," ","d","e","l","e","t","e"," ","f","r","o","m"," ","a" >>,
      << "s","e","l","e","c","t"," ","1",";"," ","s","e","l","e","c","t"," ","2" >>,
      << "S","E","L","E","C","T"," ","1" >> }

\* Resource identifiers passed to read_resource.
Uris ==
    { << "i","o","t","d","b",":","/","/","a","/","d","a","t","a" >>,
      << "i","o","t","d","b",":","/","/","b","/","d","a","t","a" >>,
      << "i","o","t","d","b",":","/","/","c","/","d","a","t","a" >>,
      << "i","o","t","d","b",":","/","/","d","/","e","/","d","a","t","a" >>,
      << "i","o","t","d","b",":","/","/","b","-","-","/","d","a","t","a" >>,
      << "i","o","t","d","b",":","/","/","n","o","s","u","c","h","/","d","a","t","a" >>,
      << "h","t","t","p",":","/","/","a","/","d","a","t","a" >>,
      << "a" >> }

PromptNames == TemplateNames \cup { "nosuch" }

ArgKeys == { << "t" >>, << "n" >> }

ArgValues == { << "v" >>, << >>, << "{","{"," ","n"," ","}","}" >> }

\* dict[str, str]: the (key, value) pairs in insertion order, keys distinct.
ArgMaps ==
    { m \in UNION { [1..len -> ArgKeys \X ArgValues] : len \in 0..MaxArgs } :
        \A j, k \in 1..Len(m) : j # k => m[j][1] # m[k][1] }

(***************************************************************************)
(* State: the handler invocations in flight and the session pool.          *)
(***************************************************************************)
VARIABLES inv, pool

vars == << inv, pool >>

Slots == 1..MaxInv

\* An invocation slot with no request in it.
IdleInv ==
    [ pc |-> "idle", handler |-> "none", name |-> "",
      hasQuery |-> FALSE, query |-> << >>, uri |-> << >>,
      hasArgs |-> FALSE, args |-> << >>,
      gate |-> "none", stmt |-> << >>, session |-> 0,
      hasCursor |-> FALSE, cols |-> << >>, rows |-> << >>,
      consumed |-> 0, drained |-> FALSE, dbError |-> FALSE,
      outcome |-> "none", error |-> "none",
      text |-> << >>, resources |-> << >>,
      acquired |-> 0, released |-> 0, executed |-> 0 ]

\* The handler raises: the exception leaves it, nothing else is done.
Raised(r, err) == [r EXCEPT !.pc = "done", !.outcome = "raised", !.error = err]

\* The handler returns a text.
Returned(r, txt) == [r EXCEPT !.pc = "done", !.outcome = "returned", !.text = txt]

(***************************************************************************)
(* The session pool (TableSessionPool): sessions 1..size exist, those in   *)
(* free wait in the pool, the others are checked out.                      *)
(***************************************************************************)
\* Fault variant: a pool that hands out any session, checked out or not.
AvailableShared(p) == 1..MaxPoolSize

\* The sessions get_session may hand out: a waiting one, else a new one
\* while the pool may still grow.
Available(p) ==
    IF p.free # {} THEN p.free
    ELSE IF p.size < MaxPoolSize THEN { p.size + 1 }
    ELSE {}

Checkout(p, s) ==
    [size |-> IF s > p.size THEN s ELSE p.size, free |-> p.free \ {s}]

\* table_session.close(): the session goes back to the pool.
Release(p, s) == [p EXCEPT !.free = @ \cup {s}]

CheckedOut(p) == (1..p.size) \ p.free

(***************************************************************************)
(* The pure parts of the handlers.                                         *)
(***************************************************************************)
\* Fault variant: the scheme check left out.
ValidUriAny(uri) == TRUE

\* read_resource: uri_str.startswith(RES_PREFIX)
ValidUri(uri) == StartsWith(uri, RES_PREFIX)

\* read_resource: uri_str[len(RES_PREFIX):].split("/")[0]
TableOf(uri) == Split(DropChars(uri, Len(RES_PREFIX)), "/")[1]

\* read_resource: f"SELECT * FROM {table} LIMIT {RESULTS_LIMIT}"
ResourceStatement(table) == SelectFrom \o table \o LimitClause \o Digits(RESULTS_LIMIT)

\* Fault variant: the gate's verdict ignored.
IsDangerousNever(query) == FALSE

\* Fault variant: a raw substring search for the denylisted words.
IsDangerousNaive(query) ==
    \/ SecurityGate(query).dangerous
    \/ \E kw \in Denylist : \E k \in 1..Len(query) : OccursAt(Upper(query), kw, k)

\* call_tool: is_dangerous of security_gate(query=query)
IsDangerous(query) == SecurityGate(query).dangerous

\* call_tool: "Error: Contain dangerous operations, reason:" + reason
DangerText(reason) == DangerPrefix \o reason

\* Fault variant: every statement that is no table listing formatted as rows.
StatementKindLoose(query) ==
    LET stmt == Upper(Strip(query))
    IN  IF StartsWith(stmt, ShowTables) THEN "listing" ELSE "tabular"

\* Fault variant: the leading keyword compared in the letter case given.
StatementKindCased(query) ==
    LET stmt == Strip(query)
    IN  IF StartsWith(stmt, ShowTables) THEN "listing"
        ELSE IF StartsWith(stmt, KwSelect) \/ StartsWith(stmt, KwDescribe) THEN "tabular"
        ELSE "other"

\* call_tool: the branch chosen from query.strip().upper()
StatementKind(query) ==
    LET stmt == Upper(Strip(query))
    IN  IF StartsWith(stmt, ShowTables) THEN "listing"
        ELSE IF StartsWith(stmt, KwSelect) \/ StartsWith(stmt, KwDescribe) THEN "tabular"
        ELSE "other"

\* ",".join(map(str, row))
RowText(row) == Join([j \in 1..Len(row) |-> Str(row[j])], << "," >>)

\* Fault variant: the header line left out.
FormatTabularNoHeader(cols, rows) ==
    Join([k \in 1..Len(rows) |-> RowText(rows[k])], << NL >>)

\* "\n".join([",".join(columns)] + result)
FormatTabular(cols, rows) ==
    Join(<< Join(cols, << "," >>) >> \o [k \in 1..Len(rows) |-> RowText(rows[k])], << NL >>)

\* Fault variant: the whole row listed instead of its first field.
FormatListingWholeRow(rows) ==
    Join(<< TablesInPrefix \o Database >> \o [k \in 1..Len(rows) |-> RowText(rows[k])],
         << NL >>)

\* "\n".join(["Tables_in_" + database] + [str(fields[0]) per row])
FormatListing(rows) ==
    Join(<< TablesInPrefix \o Database >> \o [k \in 1..Len(rows) |-> Str(rows[k][1])],
         << NL >>)

\* Fault variant: the URI built without its "/data" ending.
ResourceOfBare(table) ==
    [ uri |-> RES_PREFIX \o table,
      name |-> << "T","a","b","l","e",":"," " >> \o table,
      mimeType |-> "text/plain",
      description |-> << "D","a","t","a"," ","i","n"," ","t","a","b","l","e",":"," " >> \o table ]

\* list_resources: the Resource built for one table.
ResourceOf(table) ==
    [ uri |-> RES_PREFIX \o table \o << "/","d","a","t","a" >>,
      name |-> << "T","a","b","l","e",":"," " >> \o table,
      mimeType |-> "text/plain",
      description |-> << "D","a","t","a"," ","i","n"," ","t","a","b","l","e",":"," " >> \o table ]

\* get_prompt: f"{{{{ {key} }}}}"
Placeholder(key) == << "{","{"," " >> \o key \o << " ","}","}" >>

\* Fault variant: only the first occurrence of each placeholder replaced.
RECURSIVE SubstituteFirstOnly(_, _)
SubstituteFirstOnly(body, arguments) ==
    IF Len(arguments) = 0 THEN body
    ELSE LET pat == Placeholder(arguments[1][1])
             at == { k \in 1..Len(body) : OccursAt(body, pat, k) }
         IN  IF at = {} THEN SubstituteFirstOnly(body, Tail(arguments))
             ELSE LET k == CHOOSE x \in at : \A y \in at : x <= y
                  IN  SubstituteFirstOnly(
                          SubSeq(body, 1, k - 1) \o arguments[1][2]
                              \o DropChars(body, k + Len(pat) - 1),
                          Tail(arguments))

\* get_prompt: the replace loop over arguments.items()
RECURSIVE Substitute(_, _)
Substitute(body, arguments) ==
    IF Len(arguments) = 0 THEN body
    ELSE Substitute(Replace(body, Placeholder(arguments[1][1]), arguments[1][2]),
                    Tail(arguments))

(***************************************************************************)
(* The handlers.  A handler runs from its entry to its first driver call   *)
(* in one step; every driver call (get_session, execute_query_statement,   *)
(* the cursor loop with close) is a step of its own, so that invocations   *)
(* dispatched concurrently may interleave between driver calls.            *)
(***************************************************************************)
Init ==
    /\ inv = [i \in Slots |-> IdleInv]
    /\ pool = [size |-> 0, free |-> {}]

\* call_tool up to get_session: the name and query checks and the gate.
CallTool(i, name, hasQuery, query) ==
    /\ inv[i].pc = "idle"
    /\ hasQuery \/ query = << >>
    /\ LET r == [IdleInv EXCEPT !.handler = "call_tool", !.name = name,
                                !.hasQuery = hasQuery, !.query = query]
       IN  inv' = [inv EXCEPT ![i] =
               IF name # ToolName THEN Raised(r, "ValueError")
               ELSE IF ~hasQuery \/ query = << >> THEN Raised(r, "ValueError")
               ELSE IF IsDangerous(query)
               THEN Returned([r EXCEPT !.gate = "rejected"],
                             DangerText(SecurityGate(query).reason))
               ELSE [r EXCEPT !.gate = "approved", !.pc = "acquire", !.stmt = query]]
    /\ UNCHANGED pool

\* read_resource up to get_session: the scheme check and the table name.
ReadResource(i, uri) ==
    /\ inv[i].pc = "idle"
    /\ LET r == [IdleInv EXCEPT !.handler = "read_resource", !.uri = uri]
       IN  inv' = [inv EXCEPT ![i] =
               IF ~ValidUri(uri) THEN Raised(r, "ValueError")
               ELSE [r EXCEPT !.pc = "acquire",
                              !.stmt = ResourceStatement(TableOf(uri))]]
    /\ UNCHANGED pool

\* list_resources up to get_session.
ListResources(i) ==
    /\ inv[i].pc = "idle"
    /\ inv' = [inv EXCEPT ![i] =
           [IdleInv EXCEPT !.handler = "list_resources", !.pc = "acquire",
                           !.stmt = ShowTables]]
    /\ UNCHANGED pool

\* get_prompt, whole: it touches neither the pool nor the database.
GetPrompt(i, name, hasArgs, arguments) ==
    /\ inv[i].pc = "idle"
    /\ hasArgs \/ arguments = << >>
    /\ LET r == [IdleInv EXCEPT !.handler = "get_prompt", !.name = name,
                                !.hasArgs = hasArgs, !.args = arguments]
       IN  inv' = [inv EXCEPT ![i] =
               IF name \notin TemplateNames THEN Raised(r, "ValueError")
               ELSE Returned(r, Substitute(Templates[name], arguments))]
    /\ UNCHANGED pool

\* self.session_pool.get_session() hands out a session.
GetSession(i) ==
    /\ inv[i].pc = "acquire"
    /\ \E s \in Available(pool) :
         /\ inv' = [inv EXCEPT ![i].pc = "execute", ![i].session = s,
                               ![i].acquired = @ + 1]
         /\ pool' = Checkout(pool, s)

\* get_session() gives up waiting on an exhausted pool and raises.
GetSessionTimeout(i) ==
    /\ inv[i].pc = "acquire"
    /\ Available(pool) = {}
    /\ inv' = [inv EXCEPT ![i] = Raised(@, "PoolTimeout")]
    /\ UNCHANGED pool

\* Fault variant: the kind looked at first, a query of unrecognised kind
\* answered with the diagnostic without being sent to the database.
ExecuteQueryStatementKindFirst(i) ==
    /\ inv[i].pc = "execute"
    /\ IF inv[i].handler = "call_tool" /\ StatementKind(inv[i].query) = "other"
       THEN inv' = [inv EXCEPT ![i] = Returned(@, ErrorText)]
       ELSE \E res \in DbResults(inv[i].stmt) :
                inv' = [inv EXCEPT ![i].pc = "format", ![i].executed = @ + 1,
                                   ![i].hasCursor = TRUE,
                                   ![i].cols = res.cols, ![i].rows = res.rows]
    /\ UNCHANGED pool

\* table_session.execute_query_statement(...) answers with a cursor.
ExecuteQueryStatement(i) ==
    /\ inv[i].pc = "execute"
    /\ \E res \in DbResults(inv[i].stmt) :
         inv' = [inv EXCEPT ![i].pc = "format", ![i].executed = @ + 1,
                            ![i].hasCursor = TRUE,
                            ![i].cols = res.cols, ![i].rows = res.rows]
    /\ UNCHANGED pool

\* execute_query_statement raises (statement rejected, connection lost):
\* no handler catches it, the lines after the call do not run.
ExecuteRaises(i) ==
    /\ inv[i].pc = "execute"
    /\ inv' = [inv EXCEPT ![i] = Raised([@ EXCEPT !.executed = @ + 1, !.dbError = TRUE], "DriverError")]
    /\ UNCHANGED pool

\* list_resources from the cursor loop to the return.
ListResourcesFinish(i) ==
    /\ inv[i].pc = "format"
    /\ inv[i].handler = "list_resources"
    /\ LET r == inv[i]
       IN  inv' = [inv EXCEPT ![i] =
               [Returned(r, << >>) EXCEPT
                   !.resources = [k \in 1..Len(r.rows) |-> ResourceOf(Str(r.rows[k][1]))],
                   !.consumed = Len(r.rows), !.drained = TRUE,
                   !.released = @ + 1]]
    /\ pool' = Release(pool, inv[i].session)

\* read_resource from get_column_names to the return.
ReadResourceFinish(i) ==
    /\ inv[i].pc = "format"
    /\ inv[i].handler = "read_resource"
    /\ LET r == inv[i]
       IN  inv' = [inv EXCEPT ![i] =
               [Returned(r, FormatTabular(r.cols, r.rows)) EXCEPT
                   !.consumed = Len(r.rows), !.drained = TRUE,
                   !.released = @ + 1]]
    /\ pool' = Release(pool, inv[i].session)

\* call_tool from stmt = query.strip().upper() to the return.
CallToolFinish(i) ==
    /\ inv[i].pc = "format"
    /\ inv[i].handler = "call_tool"
    /\ LET r == inv[i]
           kind == StatementKind(r.query)
       IN  /\ inv' = [inv EXCEPT ![i] =
                  IF kind = "listing"
                  THEN [Returned(r, FormatListing(r.rows)) EXCEPT
                           !.consumed = Len(r.rows), !.drained = TRUE,
                           !.released = @ + 1]
                  ELSE IF kind = "tabular"
                  THEN [Returned(r, FormatTabular(r.cols, r.rows)) EXCEPT
                           !.consumed = Len(r.rows), !.drained = TRUE,
                           !.released = @ + 1]
                  ELSE Returned(r, ErrorText)]
           /\ pool' = IF kind = "other" THEN pool ELSE Release(pool, r.session)

\* A cursor operation (get_column_names, has_next, next) raises: the
\* exception leaves the handler before close().
CursorRaises(i) ==
    /\ inv[i].pc = "format"
    /\ inv[i].handler = "call_tool" => StatementKind(inv[i].query) # "other"
    /\ inv' = [inv EXCEPT ![i] = Raised([@ EXCEPT !.dbError = TRUE], "DriverError")]
    /\ UNCHANGED pool

\* The response (or the error) is handed to the protocol layer.
Retire(i) ==
    /\ inv[i].pc = "done"
    /\ inv' = [inv EXCEPT ![i] = IdleInv]
    /\ UNCHANGED pool

\* No invocation is in flight.
Quiet == \A j \in Slots : inv[j].pc = "idle"

\* A driver call, or the hand-over of the response, of invocation i.
Step(i) ==
    \/ GetSession(i)
    \/ GetSessionTimeout(i)
    \/ ExecuteQueryStatement(i)
    \/ ExecuteRaises(i)
    \/ ListResourcesFinish(i)
    \/ ReadResourceFinish(i)
    \/ CallToolFinish(i)
    \/ CursorRaises(i)
    \/ Retire(i)

\* The server as the protocol layer drives it: the handlers are coroutines
\* that never await, so one runs to its end before the next is dispatched.
Next ==
    \E i \in Slots :
        \/ /\ Quiet
           /\ \E name \in ToolNames, hasQuery \in BOOLEAN, query \in Queries :
                  CallTool(i, name, hasQuery, query)
        \/ /\ Quiet
           /\ \E uri \in Uris : ReadResource(i, uri)
        \/ /\ Quiet
           /\ ListResources(i)
        \/ /\ Quiet
           /\ \E name \in PromptNames, hasArgs \in BOOLEAN, arguments \in ArgMaps :
                  GetPrompt(i, name, hasArgs, arguments)
        \/ Step(i)

Spec == Init /\ [][Next]_vars

\* Requests of the overlapping dispatch: a call_tool that returns without
\* close(), a read and a listing that close.
ConcQueries == { << "S","E","T"," ","X" >> }

ConcUris == { << "i","o","t","d","b",":","/","/","a","/","d","a","t","a" >> }

\* The handlers dispatched with overlap (on threads, or once a driver call
\* yields): invocations interleave between their driver calls.
ConcNext ==
    \E i \in Slots :
        \/ \E query \in ConcQueries : CallTool(i, ToolName, TRUE, query)
        \/ \E uri \in ConcUris : ReadResource(i, uri)
        \/ ListResources(i)
        \/ Step(i)

ConcSpec == Init /\ [][ConcNext]_vars

(***************************************************************************)
(* Properties.                                                             *)
(***************************************************************************)
\* Invocation i holds a session and is between get_session and its return.
Holding(i) == inv[i].pc \in { "execute", "format" }

\* The invocation has ended (returned or raised) and awaits hand-over.
Ended(i) == inv[i].pc = "done"

\* C1: every invocation that obtained a session has released it exactly
\* once by the time it ends, on every exit path, one that obtained none has
\* released none, and while no invocation is in flight no session is
\* checked out of the pool.
C1_ReleasedExactlyOnce ==
    /\ \A i \in Slots :
         Ended(i) => inv[i].released = inv[i].acquired /\ inv[i].acquired <= 1
    /\ (\A i \in Slots : inv[i].pc \in { "idle", "done" }) => CheckedOut(pool) = {}

\* C2: when the database fails the statement or a cursor operation, the
\* handler still releases its session and returns a text; the driver's
\* error does not leave the handler.
C2_DriverErrorShaped ==
    \A i \in Slots :
        Ended(i) /\ inv[i].dbError =>
            /\ inv[i].outcome = "returned"
            /\ inv[i].released = 1

\* The request of slot r is a call_tool request that passes the name and
\* query checks and carries a query the gate classifies as dangerous.
DangerousCall(r) ==
    /\ r.handler = "call_tool"
    /\ r.name = ToolName
    /\ r.hasQuery
    /\ r.query # << >>
    /\ SecurityGate(r.query).dangerous

\* C3: a call_tool whose query the gate classifies as dangerous returns,
\* as ordinary output, the text "Error: Contain dangerous operations,
\* reason:" followed by the gate's reason, and the call acquires no session,
\* executes no statement and leaves the pool as it was.
C3_DangerousReturnsReason ==
    [][ \A i \in Slots :
          inv[i].pc = "idle" /\ DangerousCall(inv'[i]) =>
              /\ inv'[i].pc = "done"
              /\ inv'[i].outcome = "returned"
              /\ StartsWith(inv'[i].text, DangerPrefix)
              /\ DropChars(inv'[i].text, Len(DangerPrefix)) = SecurityGate(inv'[i].query).reason
              /\ inv'[i].acquired = 0
              /\ inv'[i].executed = 0
              /\ inv'[i].session = 0
              /\ pool' = pool ]_vars

\* C3 witness: DROP TABLE a was answered with the reason DROP.
C3_Witness ==
    \E i \in Slots :
        /\ Ended(i)
        /\ inv[i].handler = "call_tool"
        /\ inv[i].query = << "D","R","O","P"," ","T","A","B","L","E"," ","a" >>
        /\ inv[i].outcome = "returned"
        /\ inv[i].text = DangerPrefix \o << "D","R","O","P" >>
        /\ inv[i].acquired = 0

\* The request of slot r fails validation: an unknown tool, a missing or
\* empty query, an identifier without the scheme prefix, an unknown prompt.
InvalidRequest(r) ==
    \/ r.handler = "call_tool" /\ (r.name # ToolName \/ ~r.hasQuery \/ r.query = << >>)
    \/ r.handler = "read_resource" /\ ~StartsWith(r.uri, RES_PREFIX)
    \/ r.handler = "get_prompt" /\ r.name \notin TemplateNames

\* C4: every validation failure is raised as a rejection before any
\* get_session or execute_query_statement, and leaves the pool unchanged.
C4_ValidationRejects ==
    [][ \A i \in Slots :
          inv[i].pc = "idle" /\ InvalidRequest(inv'[i]) =>
              /\ inv'[i].pc = "done"
              /\ inv'[i].outcome = "raised"
              /\ inv'[i].error = "ValueError"
              /\ inv'[i].acquired = 0
              /\ inv'[i].executed = 0
              /\ pool' = pool ]_vars

\* C4 witness: read_resource has rejected an identifier of another scheme.
C4_Witness ==
    \E i \in Slots :
        /\ Ended(i)
        /\ inv[i].outcome = "raised"
        /\ inv[i].error = "ValueError"
        /\ inv[i].handler = "read_resource"
        /\ inv[i].uri = << "h","t","t","p",":","/","/","a","/","d","a","t","a" >>
        /\ inv[i].acquired = 0

Leads(query, kw) == StartsWith(Upper(Strip(query)), kw)

\* The ended invocation r returned tabular output: a read_resource, or a
\* call_tool of an approved SELECT or DESCRIBE.
ReturnedTabular(r) ==
    /\ r.pc = "done"
    /\ r.outcome = "returned"
    /\ \/ r.handler = "read_resource"
       \/ /\ r.handler = "call_tool"
          /\ r.gate = "approved"
          /\ ~Leads(r.query, ShowTables)
          /\ Leads(r.query, KwSelect) \/ Leads(r.query, KwDescribe)

\* The text read back: c comma-separated header fields that are the column
\* names, then one line per row that is the row's fields joined by ",".
TabularShape(r) ==
    LET lines == Split(r.text, NL)
    IN  /\ Len(lines) = Len(r.rows) + 1
        /\ Len(Split(lines[1], ",")) = Len(r.cols)
        /\ Split(lines[1], ",") = r.cols
        /\ \A k \in 1..Len(r.rows) :
             lines[k + 1] = Join([j \in 1..Len(r.rows[k]) |-> Str(r.rows[k][j])], << "," >>)

\* No column name holds a comma or a line break and no field's text holds a
\* line break.
CleanResult(r) ==
    /\ \A j \in 1..Len(r.cols) : \A m \in 1..Len(r.cols[j]) : r.cols[j][m] \notin { ",", NL }
    /\ \A k \in 1..Len(r.rows) : \A j \in 1..Len(r.rows[k]) :
         \A m \in 1..Len(Str(r.rows[k][j])) : Str(r.rows[k][j])[m] # NL

\* C6 as stated: for any result set of c columns and r rows the returned
\* text has a first line of exactly c comma-separated fields, the column
\* names, and exactly r further lines, each a row's fields joined by ",".
C6_TabularShapeAlways ==
    \A i \in Slots : ReturnedTabular(inv[i]) => TabularShape(inv[i])

\* C6 amended: the same, for result sets whose column names hold no comma
\* or line break and whose fields' texts hold no line break.
C6_TabularShapeClean ==
    \A i \in Slots :
        ReturnedTabular(inv[i]) /\ CleanResult(inv[i]) => TabularShape(inv[i])

\* C6 witness: reading table a (columns time,temp, one row 1,23.5) has
\* returned "time,temp\n1,23.5".
C6_Witness ==
    \E i \in Slots :
        /\ ReturnedTabular(inv[i])
        /\ CleanResult(inv[i])
        /\ inv[i].handler = "read_resource"
        /\ inv[i].text = << "t","i","m","e",",","t","e","m","p","\n","1",",","2","3",".","5" >>

\* C7: an approved query that starts with SHOW TABLES returns the header
\* "Tables_in_" + database and then exactly the first field of each cursor
\* row, one per line, in cursor order.
C7_ShowTablesListing ==
    \A i \in Slots :
        /\ Ended(i)
        /\ inv[i].outcome = "returned"
        /\ inv[i].handler = "call_tool"
        /\ inv[i].gate = "approved"
        /\ Leads(inv[i].query, ShowTables)
        => Split(inv[i].text, NL)
             = << TablesInPrefix \o Database >>
                 \o [k \in 1..Len(inv[i].rows) |-> Str(inv[i].rows[k][1])]

\* C7 witness: SHOW TABLES on the database of tables a, b, c, d/e has returned
\* "Tables_in_db\na\nb\nc\nd/e".
C7_Witness ==
    \E i \in Slots :
        /\ Ended(i)
        /\ inv[i].handler = "call_tool"
        /\ inv[i].query = << "S","H","O","W"," ","T","A","B","L","E","S" >>
        /\ inv[i].outcome = "returned"
        /\ inv[i].text = << "T","a","b","l","e","s","_","i","n","_","d","b","\n","a","\n","b","\n","c","\n","d","/","e" >>

\* C8: an approved query that starts with none of SHOW TABLES, SELECT and
\* DESCRIBE returns exactly "Error executing query", never cursor data.
C8_OtherKindDiagnostic ==
    \A i \in Slots :
        /\ Ended(i)
        /\ inv[i].outcome = "returned"
        /\ inv[i].handler = "call_tool"
        /\ inv[i].gate = "approved"
        /\ ~Leads(inv[i].query, ShowTables)
        /\ ~Leads(inv[i].query, KwSelect)
        /\ ~Leads(inv[i].query, KwDescribe)
        => inv[i].text = ErrorText

\* C8 witness: SET X was executed, with a cursor of rows, and answered with
\* the diagnostic.
C8_Witness ==
    \E i \in Slots :
        /\ Ended(i)
        /\ inv[i].handler = "call_tool"
        /\ inv[i].query = << "S","E","T"," ","X" >>
        /\ inv[i].hasCursor
        /\ Len(inv[i].rows) > 0
        /\ inv[i].outcome = "returned"
        /\ inv[i].text = ErrorText

\* C9: whatever identifier read_resource accepts, the text it returns has
\* at most RESULTS_LIMIT data lines after the header, from at most
\* RESULTS_LIMIT rows.
C9_HardCeiling ==
    \A i \in Slots :
        Ended(i) /\ inv[i].handler = "read_resource" /\ inv[i].outcome = "returned" =>
            /\ Len(inv[i].rows) <= RESULTS_LIMIT
            /\ Len(Split(inv[i].text, NL)) - 1 <= RESULTS_LIMIT

\* A piece of a template body: literal text, or the placeholder of a name.
Lit(s) == [ph |-> FALSE, s |-> s]

Ph(key) == [ph |-> TRUE, s |-> key]

\* The template bodies cut into their pieces.
TemplateParts ==
    [ ask   |-> << Lit(<< "q"," " >>), Ph(<< "t" >>), Lit(<< " ","x" >>), Ph(<< "n" >>), Ph(<< "t" >>) >>,
      plain |-> << Lit(<< "a","{","{","b","}","}" >>) >> ]

\* The pieces put together with the placeholder of key replaced by value;
\* every other piece stands as it is written in the body.
Filled(parts, hasKey, key, value) ==
    Join([k \in 1..Len(parts) |->
             IF ~parts[k].ph THEN parts[k].s
             ELSE IF hasKey /\ parts[k].s = key THEN value
             ELSE << "{", "{", " " >> \o parts[k].s \o << " ", "}", "}" >>],
         << >>)

\* C10: get_prompt of a known template with one argument returns the body
\* with every placeholder of that argument replaced by its value and all
\* other text, other placeholders included, unaltered; with no arguments
\* it returns the body unchanged.
C10_PromptRoundTrip ==
    \A i \in Slots :
        Ended(i) /\ inv[i].handler = "get_prompt" /\ inv[i].name \in TemplateNames =>
            /\ Filled(TemplateParts[inv[i].name], FALSE, << >>, << >>) = Templates[inv[i].name]
            /\ inv[i].outcome = "returned"
            /\ Len(inv[i].args) = 0 => inv[i].text = Templates[inv[i].name]
            /\ Len(inv[i].args) = 1 =>
                 inv[i].text = Filled(TemplateParts[inv[i].name], TRUE,
                                      inv[i].args[1][1], inv[i].args[1][2])

\* C10 witness: get_prompt("ask", {t: "v"}) has returned "q v x{{ n }}v".
C10_Witness ==
    \E i \in Slots :
        /\ Ended(i)
        /\ inv[i].handler = "get_prompt"
        /\ inv[i].name = "ask"
        /\ inv[i].args = << << << "t" >>, << "v" >> >> >>
        /\ inv[i].text = << "q"," ","v"," ","x","{","{"," ","n"," ","}","}","v" >>

\* C11: a handler that executed a statement has drained the cursor
\* (has_next until false) before it released the session and before it
\* returned: no handler returns leaving a cursor unread or partly read.
C11_CursorDrained ==
    \A i \in Slots :
        /\ Ended(i) /\ inv[i].outcome = "returned" /\ inv[i].hasCursor =>
             inv[i].drained /\ inv[i].consumed = Len(inv[i].rows)
        /\ inv[i].released > 0 => inv[i].drained

\* The text ends with the given ending.
EndsWith(s, e) == Len(s) >= Len(e) /\ SubSeq(s, Len(s) - Len(e) + 1, Len(s)) = e

\* C12: list_resources runs SHOW TABLES and returns one resource per row of
\* the answer, in cursor order: the resource of table t has the URI
\* RES_PREFIX + t + "/data" and mime type text/plain, and there are as many
\* resources as tables.
C12_OneResourcePerTable ==
    \A i \in Slots :
        Ended(i) /\ inv[i].handler = "list_resources" /\ inv[i].outcome = "returned" =>
            /\ inv[i].stmt = ShowTables
            /\ Len(inv[i].resources) = Len(TableNames)
            /\ Len(inv[i].resources) = Len(inv[i].rows)
            /\ \A k \in 1..Len(inv[i].resources) :
                 LET res == inv[i].resources[k]
                     t == TableNames[k]
                 IN  /\ StartsWith(res.uri, RES_PREFIX)
                     /\ EndsWith(res.uri, << "/","d","a","t","a" >>)
                     /\ Len(res.uri) = Len(RES_PREFIX) + Len(t) + 5
                     /\ SubSeq(res.uri, Len(RES_PREFIX) + 1, Len(RES_PREFIX) + Len(t)) = t
                     /\ res.mimeType = "text/plain"

\* C12 witness: the listing of the database has been returned, the first
\* resource being iotdb://a/data.
C12_Witness ==
    \E i \in Slots :
        /\ Ended(i)
        /\ inv[i].handler = "list_resources"
        /\ inv[i].outcome = "returned"
        /\ Len(inv[i].resources) >= 2
        /\ inv[i].resources[1].uri = << "i","o","t","d","b",":","/","/","a","/","d","a","t","a" >>
        /\ inv[i].resources[2].uri = << "i","o","t","d","b",":","/","/","b","/","d","a","t","a" >>

\* The number of quote characters of q before position k.
QuotesBefore(q, k) == Cardinality({ m \in 1..(k - 1) : q[m] = Quote })

\* The denylisted word kw is spelled, in any letter case, at position k of q.
SpelledAt(q, kw, k) == OccursAt(Upper(q), kw, k)

\* The denylisted word kw stands at position k of q as a token of its own:
\* no word character on either side, and outside every string literal.
RealKeywordAt(q, kw, k) ==
    /\ SpelledAt(q, kw, k)
    /\ k = 1 \/ q[k - 1] \notin WordChars
    /\ k + Len(kw) - 1 = Len(q) \/ q[k + Len(kw)] \notin WordChars
    /\ QuotesBefore(q, k) % 2 = 0

\* A statement separator stands at position k of q outside every literal.
RealSeparatorAt(q, k) == q[k] = Semicolon /\ QuotesBefore(q, k) % 2 = 0

\* What a rejection of q may name: the denylisted words standing in q as
\* tokens and the separator standing outside a literal.
Offences(q) ==
    { kw \in Denylist : \E k \in 1..Len(q) : RealKeywordAt(q, kw, k) }
        \cup { << Semicolon >> : k \in { m \in 1..Len(q) : RealSeparatorAt(q, m) } }

\* The quotes of q pair up.
Balanced(q) == QuotesBefore(q, Len(q) + 1) % 2 = 0

\* A call_tool request that passed the name and query checks.
GatedCall(r) ==
    r.handler = "call_tool" /\ r.name = ToolName /\ r.hasQuery /\ r.query # << >>

\* C13: a call_tool query that holds a denylisted keyword as a token of its
\* own, or a statement separator outside a string literal, is rejected by
\* the gate with a reason that names such a keyword (or the separator), and
\* the call never executes the query on a session.
C13_KeywordRejected ==
    \A i \in Slots :
        GatedCall(inv[i]) /\ Balanced(inv[i].query) /\ Offences(inv[i].query) # {} =>
            /\ SecurityGate(inv[i].query).dangerous
            /\ SecurityGate(inv[i].query).reason \in Offences(inv[i].query)
            /\ inv[i].gate = "rejected"
            /\ Ended(i)
            /\ inv[i].outcome = "returned"
            /\ inv[i].text = DangerPrefix \o SecurityGate(inv[i].query).reason
            /\ inv[i].acquired = 0
            /\ inv[i].executed = 0

\* C13 witness: a chained statement ("select 1; delete from a" or
\* "select 1; select 2") was refused for its separator and not executed.
C13_Witness ==
    \E i \in Slots :
        /\ GatedCall(inv[i])
        /\ inv[i].query \in { << "s","e","l","e","c","t"," ","1",";"," ","d","e","l","e","t","e"," ","f","r","o","m"," ","a" >>, << "s","e","l","e","c","t"," ","1",";"," ","s","e","l","e","c","t"," ","2" >> }
        /\ inv[i].gate = "rejected"
        /\ inv[i].text = DangerPrefix \o << Semicolon >>
        /\ inv[i].executed = 0

\* The query spells a denylisted word, and every such spelling lies inside
\* a string literal; its quotes pair up and no separator stands outside.
KeywordOnlyInLiteral(q) ==
    /\ Balanced(q)
    /\ Strip(q) # << >>
    /\ \E kw \in Denylist : \E k \in 1..Len(q) : SpelledAt(q, kw, k)
    /\ \A kw \in Denylist : \A k \in 1..Len(q) :
         SpelledAt(q, kw, k) => QuotesBefore(q, k) % 2 = 1
    /\ \A k \in 1..Len(q) : ~RealSeparatorAt(q, k)

C15_GateBeforeExecute ==
    \A i \in Slots :
        inv[i].executed > 0 /\ inv[i].handler \in { "call_tool", "read_resource" } =>
            inv[i].gate = "approved"

\* The query as the kind is read from it: trimmed, letter case folded.
NormalText(q) == Upper(Strip(q))

\* The three kinds as a function of the normal text alone.
KindOfNormal(n) ==
    IF StartsWith(n, << "S","H","O","W"," ","T","A","B","L","E","S" >>) THEN "listing"
    ELSE IF StartsWith(n, << "S","E","L","E","C","T" >>) \/ StartsWith(n, << "D","E","S","C","R","I","B","E" >>) THEN "tabular"
    ELSE "other"

\* The branch that shaped the output of the returned call r, read off what
\* the call did: the fixed diagnostic with the cursor untouched, the table
\* listing, or header and rows.
ObservedBranch(r) ==
    IF r.text = ErrorText /\ ~r.drained THEN "other"
    ELSE IF r.drained /\ StartsWith(r.text, TablesInPrefix) /\ r.text = FormatListing(r.rows)
    THEN "listing"
    ELSE IF r.drained /\ r.text = FormatTabular(r.cols, r.rows) THEN "tabular"
    ELSE "none"

\* C16: the branch that shapes the output of an approved query is a total
\* function of the query's text after trimming and case folding: every
\* returned call took exactly one of the three branches, the one its normal
\* text determines, so queries that differ only in letter case or in
\* surrounding whitespace take the same branch.
C16_KindOfNormalText ==
    \A i \in Slots :
        /\ Ended(i)
        /\ inv[i].handler = "call_tool"
        /\ inv[i].gate = "approved"
        /\ inv[i].outcome = "returned"
        => /\ ObservedBranch(inv[i]) \in { "listing", "tabular", "other" }
           /\ ObservedBranch(inv[i]) = KindOfNormal(NormalText(inv[i].query))
           /\ \A q \in Queries :
                NormalText(q) = NormalText(inv[i].query) =>
                    StatementKind(q) = ObservedBranch(inv[i])

\* C16 witness: " select 1 " was answered by the tabular branch, the branch
\* of "SELECT 1", a different text with the same normal text.
C16_Witness ==
    \E i \in Slots :
        /\ Ended(i)
        /\ inv[i].handler = "call_tool"
        /\ inv[i].outcome = "returned"
        /\ inv[i].query = << " ","s","e","l","e","c","t"," ","1"," " >>
        /\ ObservedBranch(inv[i]) = "tabular"
        /\ \E q \in Queries : q # inv[i].query /\ NormalText(q) = NormalText(inv[i].query)

\* C17: with the handlers run one after another, the sessions checked out
\* never exceed the pool's bound, none is checked out once an invocation has
\* ended, and so no acquisition runs out of sessions.
C17_SequentialPoolReturns ==
    /\ Cardinality(CheckedOut(pool)) <= MaxPoolSize
    /\ \A i \in Slots :
         /\ Ended(i) => CheckedOut(pool) = {}
         /\ inv[i].pc = "acquire" => Available(pool) # {}
         /\ inv[i].error # "PoolTimeout"

\* C18: call_tool sends the approved query to the database before it looks
\* at the statement kind: a call that passed the gate and obtained a session
\* has executed its query exactly once by the time any output is shaped,
\* also when the kind is unrecognised and the caller receives "Error
\* executing query"; that diagnostic does not mean nothing was executed.
C18_ExecutedBeforeKind ==
    \A i \in Slots :
        inv[i].handler = "call_tool" /\ inv[i].gate = "approved" =>
            /\ inv[i].executed <= 1
            /\ inv[i].executed = 1 => inv[i].acquired = 1 /\ inv[i].stmt = inv[i].query
            /\ inv[i].pc = "format" => inv[i].executed = 1
            /\ Ended(i) /\ inv[i].acquired = 1 => inv[i].executed = 1
            /\ Ended(i) /\ inv[i].outcome = "returned" =>
                 inv[i].executed = 1 /\ inv[i].acquired = 1

\* C18 witness: SET X, of unrecognised kind, was executed once on an
\* acquired session and then answered with the diagnostic.
C18_Witness ==
    \E i \in Slots :
        /\ Ended(i)
        /\ inv[i].handler = "call_tool"
        /\ inv[i].gate = "approved"
        /\ StatementKind(inv[i].query) = "other"
        /\ inv[i].acquired = 1
        /\ inv[i].executed = 1
        /\ inv[i].outcome = "returned"
        /\ inv[i].text = ErrorText

\* The value the argument map gives the name key, if it lists the name.
Listed(arguments, key) == \E j \in 1..Len(arguments) : arguments[j][1] = key

ValueOf(arguments, key) ==
    arguments[CHOOSE j \in 1..Len(arguments) : arguments[j][1] = key][2]

\* The simultaneous substitution: every placeholder of the body replaced by
\* the value listed for its name, the inserted values left as they are.
FilledAll(parts, arguments) ==
    Join([k \in 1..Len(parts) |->
             IF ~parts[k].ph THEN parts[k].s
             ELSE IF Listed(arguments, parts[k].s) THEN ValueOf(arguments, parts[k].s)
             ELSE << "{", "{", " " >> \o parts[k].s \o << " ", "}", "}" >>],
         << >>)

\* C19: with several arguments get_prompt returns the simultaneous
\* substitution of the template body: each placeholder replaced by the value
\* of the argument of its name, whatever the order of the arguments, and a
\* value that itself spells a placeholder is not substituted again.
C19_SimultaneousSubstitution ==
    \A i \in Slots :
        Ended(i) /\ inv[i].handler = "get_prompt" /\ inv[i].name \in TemplateNames =>
            inv[i].text = FilledAll(TemplateParts[inv[i].name], inv[i].args)

\* C20: resource identifiers round-trip: for every table t that SHOW TABLES
\* lists, read_resource accepts the URI list_resources produced for t and
\* queries exactly table t; the name parsed from RES_PREFIX + t + "/data"
\* is t.
C20_UriRoundTrip ==
    \A i \in Slots :
        /\ Ended(i) /\ inv[i].handler = "list_resources" /\ inv[i].outcome = "returned" =>
             \A k \in 1..Len(inv[i].resources) :
                 /\ ValidUri(inv[i].resources[k].uri)
                 /\ TableOf(inv[i].resources[k].uri) = Str(inv[i].rows[k][1])
        /\ inv[i].handler = "read_resource" =>
             \A k \in 1..Len(TableNames) :
                 inv[i].uri = ResourceOf(TableNames[k]).uri =>
                     /\ inv[i].outcome # "raised" \/ inv[i].error # "ValueError"
                     /\ inv[i].stmt = ResourceStatement(TableNames[k])

====
